---- MODULE Spec2Model ----
(***************************************************************************)
(* DatabaseWithOwnTablesBase (dbms/src/Databases/DatabasesCommon.cpp):     *)
(* the in-memory registry of one database: the map `tables`, the set       *)
(* `dictionaries`, both guarded by one non-recursive `mutex`, and the      *)
(* operations that read and change them from several threads.              *)
(***************************************************************************)
EXTENDS Integers, Sequences, FiniteSets, TLC

\* ------------------------------------------------------------------ bounds
\* Table and dictionary names share one universe: any name may be attached
\* as a table, as a dictionary, or as both (the attach paths do not cross-check).
Names == {"a", "b"}
\* Client threads calling into the database.
Threads == {1, 2}
\* Distinct storage objects that may be created for one table name.
MaxIncarnations == 2

DatabaseName == "db"

VARIABLES
    tables,         \* Tables tables: table name -> StoragePtr
    dictionaries,   \* Dictionaries dictionaries: set of dictionary names
    mutex,          \* mutable std::mutex mutex: NoThread or the thread holding it
    pc,             \* per thread: where it stands inside an operation
    arg,            \* per thread: the locals of the operation it is inside
    sd,             \* per thread: the locals of the shutdown() call it is inside
    loaded,         \* ExternalDictionariesLoader: qualified names it can hand out
    held,           \* the snapshot iterator most recently returned to a caller
    last            \* the operation that completed most recently: its outcome and
                    \* the loader requests it made

vars == <<tables, dictionaries, mutex, pc, arg, sd, loaded, held, last>>


\* ------------------------------------------------------------------ values
NoThread == 0
Null == <<>>
EmptyMap == [k \in {} |-> Null]

\* A table's storage object; it carries the table name it was created for.
Storage(table_name, i) == <<"IStorage", table_name, i>>
StoragesNamed(table_name) == {Storage(table_name, i) : i \in 1..MaxIncarnations}
Storages == UNION {StoragesNamed(n) : n \in Names}

\* db_name + "." + table_name
QualifiedName(db_name, table_name) == <<db_name, ".", table_name>>
QualifiedNames == {QualifiedName(DatabaseName, n) : n \in Names}

\* FilterByNameFunction: an empty std::function, or a predicate over names.
NoFilter == [present |-> FALSE, pass |-> {}]
Filters == {NoFilter} \cup {[present |-> TRUE, pass |-> S] : S \in SUBSET Names}

\* std::map::emplace: inserts only when the key is absent.
Emplace(m, k, v) ==
    IF k \in DOMAIN m THEN m
    ELSE [x \in DOMAIN m \cup {k} |-> IF x = k THEN v ELSE m[x]]
Erase(m, k) == [x \in DOMAIN m \ {k} |-> m[x]]

\* Exception(message, code)
Exception(message, code) == [code |-> code, message |-> message]
NoException == [code |-> "OK", message |-> ""]

\* What the caller of a completed operation saw: the exception or the return
\* value, the loader requests the operation made, and whether it was called
\* from inside a table's shutdown() routine.
Outcome(op, name, err, ret, calls, nested) ==
    [op |-> op, name |-> name, err |-> err, ret |-> ret, calls |-> calls, nested |-> nested]

Init ==
    /\ tables = EmptyMap
    /\ dictionaries = {}
    /\ mutex = NoThread
    /\ pc = [t \in Threads |-> "idle"]
    /\ arg = [t \in Threads |-> Null]
    /\ sd = [t \in Threads |-> Null]
    /\ loaded = {}
    /\ held = Null
    /\ last = Outcome("none", "", NoException, Null, <<>>, FALSE)

\* ------------------------------------------------------------ call sites
\* std::lock_guard lock(mutex) blocks until the mutex is free. A thread calls
\* an operation from the outside (idle); isTableExist, tryGetTable and
\* detachTable are also called by a table's shutdown() routine, from inside
\* the database's shutdown loop.
CanCall(t) == mutex = NoThread /\ pc[t] \in {"idle", "in_table_shutdown"}
CanCallTop(t) == mutex = NoThread /\ pc[t] = "idle"

\* ------------------------------------------------- the Dictionary Loader
\* ExternalDictionariesLoader::tryGetDictionary(dict_name): the dictionary,
\* or nullptr when the loader has none under that name.
tryGetDictionary(dict_name) ==
    IF dict_name \in loaded THEN <<"IDictionary", dict_name>> ELSE Null

\* A getDictionaryStorage that asks the loader for the bare table name.
getDictionaryStorage_Unqualified(table_name, db_name) ==
    LET dict_name == <<table_name>>
        dict_ptr == tryGetDictionary(dict_name)
    IN  IF dict_ptr # Null
        THEN <<"StorageDictionary", db_name, table_name, dict_name>>
        ELSE Null

\* getDictionaryStorage: a fresh StorageDictionary for a loaded dictionary.
getDictionaryStorage(table_name, db_name) ==
    LET dict_name == QualifiedName(db_name, table_name)
        dict_ptr == tryGetDictionary(dict_name)
    IN  IF dict_ptr # Null
        THEN <<"StorageDictionary", db_name, table_name, dict_name>>
        ELSE Null

\* The loader loads, reloads and drops dictionaries on its own schedule.
ExternalLoaderUpdate(dict_name) ==
    /\ loaded' = IF dict_name \in loaded THEN loaded \ {dict_name}
                                         ELSE loaded \cup {dict_name}
    /\ UNCHANGED <<tables, dictionaries, mutex, pc, arg, sd, held, last>>

\* ------------------------------------------------------ existence checks
\* An isTableExist that looks the name up in dictionaries only.
isTableExist_DictionariesOnly(t, table_name) ==
    /\ CanCall(t)
    /\ last' = Outcome("isTableExist", table_name, NoException,
                       table_name \in dictionaries, <<>>, pc[t] # "idle")
    /\ UNCHANGED <<tables, dictionaries, mutex, pc, arg, loaded, sd, held>>

isTableExist(t, table_name) ==
    /\ CanCall(t)
    /\ last' = Outcome("isTableExist", table_name, NoException,
                       table_name \in DOMAIN tables \/ table_name \in dictionaries, <<>>,
                       pc[t] # "idle")
    /\ UNCHANGED <<tables, dictionaries, mutex, pc, arg, loaded, sd, held>>

isDictionaryExist(t, dictionary_name) ==
    /\ CanCallTop(t)
    /\ last' = Outcome("isDictionaryExist", dictionary_name, NoException,
                       dictionary_name \in dictionaries, <<>>, FALSE)
    /\ UNCHANGED <<tables, dictionaries, mutex, pc, arg, loaded, sd, held>>

\* tables.empty() && dictionaries.empty()
emptyResult == tables = EmptyMap /\ dictionaries = {}

empty(t) ==
    /\ CanCallTop(t)
    /\ last' = Outcome("empty", "", NoException, emptyResult, <<>>, FALSE)
    /\ UNCHANGED <<tables, dictionaries, mutex, pc, arg, loaded, sd, held>>

\* ------------------------------------------------------------ tryGetTable
\* The lock_guard lives to the end of the function: the table branch and the
\* miss return at once; the dictionary branch calls the loader inside it.
tryGetTable(t, table_name) ==
    /\ CanCall(t)
    /\ IF table_name \in DOMAIN tables
       THEN /\ last' = Outcome("tryGetTable", table_name, NoException, tables[table_name], <<>>,
                               pc[t] # "idle")
                    /\ UNCHANGED <<mutex, pc, arg>>
       ELSE IF table_name \in dictionaries
       THEN /\ mutex' = t
            /\ pc' = [pc EXCEPT ![t] = "tryGetTable_loader"]
            /\ arg' = [arg EXCEPT ![t] = table_name]
            /\ UNCHANGED last
       ELSE /\ last' = Outcome("tryGetTable", table_name, NoException, Null, <<>>,
                               pc[t] # "idle")
                    /\ UNCHANGED <<mutex, pc, arg>>
    /\ UNCHANGED <<tables, dictionaries, loaded, sd, held>>

\* The loader answers; getDictionaryStorage builds the view or gives nullptr;
\* the lock_guard is destroyed on return.
tryGetTableLoaderReturn(t) ==
    /\ pc[t] = "tryGetTable_loader"
    /\ last' = Outcome("tryGetTable", arg[t], NoException,
                       getDictionaryStorage(arg[t], DatabaseName),
                       <<<<"tryGetDictionary", QualifiedName(DatabaseName, arg[t])>>>>,
                       sd[t] # Null)
    /\ mutex' = NoThread
    /\ pc' = [pc EXCEPT ![t] = IF sd[t] = Null THEN "idle" ELSE "in_table_shutdown"]
    /\ arg' = [arg EXCEPT ![t] = Null]
    /\ UNCHANGED <<tables, dictionaries, loaded, sd, held>>

\* ------------------------------------------------------- attach / detach
\* A detachTable that looks the name up in tables before it looks at dictionaries.
detachTableBody_TablesFirst(table_name) ==
    IF table_name \in DOMAIN tables
    THEN [throw |-> NoException, res |-> tables[table_name],
          tables |-> Erase(tables, table_name)]
    ELSE IF table_name \in dictionaries
    THEN [throw |-> Exception("Cannot detach dictionary as table, use DETACH DICTIONARY query.",
                              "UNKNOWN_TABLE"),
          res |-> Null, tables |-> tables]
    ELSE [throw |-> Exception("Table doesn't exist.", "UNKNOWN_TABLE"),
          res |-> Null, tables |-> tables]

detachTableBody(table_name) ==
    IF table_name \in dictionaries
    THEN [throw |-> Exception("Cannot detach dictionary as table, use DETACH DICTIONARY query.",
                              "UNKNOWN_TABLE"),
          res |-> Null, tables |-> tables]
    ELSE IF table_name \notin DOMAIN tables
    THEN [throw |-> Exception("Table doesn't exist.", "UNKNOWN_TABLE"),
          res |-> Null, tables |-> tables]
    ELSE [throw |-> NoException, res |-> tables[table_name],
          tables |-> Erase(tables, table_name)]

detachTable(t, table_name) ==
    /\ CanCall(t)
    /\ LET r == detachTableBody(table_name)
       IN  /\ tables' = r.tables
           /\ last' = Outcome("detachTable", table_name, r.throw, r.res, <<>>, pc[t] # "idle")
    /\ UNCHANGED <<dictionaries, mutex, pc, arg, loaded, sd, held>>

\* An attachTable that assigns (operator[] / insert_or_assign) before it throws.
attachTableBody_Assign(table_name, table) ==
    IF table_name \in DOMAIN tables
    THEN [throw |-> Exception("Table already exists.", "TABLE_ALREADY_EXISTS"),
          tables |-> [tables EXCEPT ![table_name] = table]]
    ELSE [throw |-> NoException, tables |-> Emplace(tables, table_name, table)]

attachTableBody(table_name, table) ==
    IF table_name \in DOMAIN tables
    THEN [throw |-> Exception("Table already exists.", "TABLE_ALREADY_EXISTS"),
          tables |-> tables]
    ELSE [throw |-> NoException, tables |-> Emplace(tables, table_name, table)]

attachTable(t, table_name, table) ==
    /\ CanCallTop(t)
    /\ LET r == attachTableBody(table_name, table)
       IN  /\ tables' = r.tables
           /\ last' = Outcome("attachTable", table_name, r.throw, Null, <<>>, FALSE)
    /\ UNCHANGED <<dictionaries, mutex, pc, arg, loaded, sd, held>>

\* A detachDictionary that erases by key and never throws.
detachDictionaryBody_NoThrow(dictionary_name) ==
    [throw |-> NoException, dictionaries |-> dictionaries \ {dictionary_name}]

detachDictionaryBody(dictionary_name) ==
    IF dictionary_name \notin dictionaries
    THEN [throw |-> Exception("Dictionary doesn't exist.", "UNKNOWN_TABLE"),
          dictionaries |-> dictionaries]
    ELSE [throw |-> NoException, dictionaries |-> dictionaries \ {dictionary_name}]

\* A detachDictionary that calls reload with false as its flag.
detachDictionary_ReloadFalse(t, dictionary_name) ==
    /\ CanCallTop(t)
    /\ LET r == detachDictionaryBody(dictionary_name)
       IN  /\ dictionaries' = r.dictionaries
           /\ IF r.throw # NoException
              THEN /\ last' = Outcome("detachDictionary", dictionary_name, r.throw, Null, <<>>, FALSE)
                   /\ UNCHANGED <<pc, arg>>
              ELSE /\ pc' = [pc EXCEPT ![t] = "detachDictionary_reload"]
                   /\ arg' = [arg EXCEPT ![t] =
                                 <<"reload", QualifiedName(DatabaseName, dictionary_name), FALSE>>]
                   /\ UNCHANGED last
    /\ UNCHANGED <<tables, mutex, loaded, sd, held>>

\* The block holding the lock_guard: find, throw or erase. After the block the
\* thread calls reload(getDatabaseName() + "." + dictionary_name, true).
detachDictionary(t, dictionary_name) ==
    /\ CanCallTop(t)
    /\ LET r == detachDictionaryBody(dictionary_name)
       IN  /\ dictionaries' = r.dictionaries
           /\ IF r.throw # NoException
              THEN /\ last' = Outcome("detachDictionary", dictionary_name, r.throw, Null, <<>>, FALSE)
                   /\ UNCHANGED <<pc, arg>>
              ELSE /\ pc' = [pc EXCEPT ![t] = "detachDictionary_reload"]
                   /\ arg' = [arg EXCEPT ![t] =
                                 <<"reload", QualifiedName(DatabaseName, dictionary_name), TRUE>>]
                   /\ UNCHANGED last
    /\ UNCHANGED <<tables, mutex, loaded, sd, held>>

\* An attachDictionary that inserts into the set and never throws.
attachDictionaryBody_NoThrow(dictionary_name) ==
    [throw |-> NoException, dictionaries |-> dictionaries \cup {dictionary_name}]

attachDictionaryBody(dictionary_name) ==
    IF dictionary_name \in dictionaries
    THEN [throw |-> Exception("Dictionary already exists.", "DICTIONARY_ALREADY_EXISTS"),
          dictionaries |-> dictionaries]
    ELSE [throw |-> NoException, dictionaries |-> dictionaries \cup {dictionary_name}]

\* An attachDictionary that passes lazy_load itself as reload's flag.
attachDictionary_FlagNotNegated(t, dictionary_name, load, lazy_load) ==
    /\ CanCallTop(t)
    /\ LET r == attachDictionaryBody(dictionary_name)
       IN  /\ dictionaries' = r.dictionaries
           /\ IF r.throw # NoException \/ ~load
              THEN /\ last' = Outcome("attachDictionary", dictionary_name, r.throw, Null, <<>>, FALSE)
                   /\ UNCHANGED <<pc, arg>>
              ELSE /\ pc' = [pc EXCEPT ![t] = "attachDictionary_reload"]
                   /\ arg' = [arg EXCEPT ![t] =
                                 <<"reload", QualifiedName(DatabaseName, dictionary_name), lazy_load>>]
                   /\ UNCHANGED last
    /\ UNCHANGED <<tables, mutex, loaded, sd, held>>

\* The block holding the lock_guard: emplace or throw. After the block, when
\* load is set, the thread reads the config flag dictionaries_lazy_load and
\* calls reload(getDatabaseName() + "." + dictionary_name, !lazy_load).
attachDictionary(t, dictionary_name, load, lazy_load) ==
    /\ CanCallTop(t)
    /\ LET r == attachDictionaryBody(dictionary_name)
       IN  /\ dictionaries' = r.dictionaries
           /\ IF r.throw # NoException \/ ~load
              THEN /\ last' = Outcome("attachDictionary", dictionary_name, r.throw, Null, <<>>, FALSE)
                   /\ UNCHANGED <<pc, arg>>
              ELSE /\ pc' = [pc EXCEPT ![t] = "attachDictionary_reload"]
                   /\ arg' = [arg EXCEPT ![t] =
                                 <<"reload", QualifiedName(DatabaseName, dictionary_name), ~lazy_load>>]
                   /\ UNCHANGED last
    /\ UNCHANGED <<tables, mutex, loaded, sd, held>>

\* ExternalDictionariesLoader::reload(name, wait) returns to detachDictionary
\* or attachDictionary, which then returns.
reloadReturn(t) ==
    /\ pc[t] \in {"detachDictionary_reload", "attachDictionary_reload"}
    /\ last' = Outcome(IF pc[t] = "detachDictionary_reload" THEN "detachDictionary"
                                                            ELSE "attachDictionary",
                       arg[t][2][3], NoException, Null, <<arg[t]>>, FALSE)
    /\ pc' = [pc EXCEPT ![t] = "idle"]
    /\ arg' = [arg EXCEPT ![t] = Null]
    /\ UNCHANGED <<tables, dictionaries, mutex, loaded, sd, held>>

\* ------------------------------------------------------------ enumeration
\* DatabaseTablesSnapshotIterator / DatabaseDictionariesSnapshotIterator:
\* the iterator owns the container it is constructed from.
DatabaseTablesSnapshotIterator(m) == <<"DatabaseTablesSnapshotIterator", m>>
DatabaseDictionariesSnapshotIterator(names) == <<"DatabaseDictionariesSnapshotIterator", names>>

\* for (table_name, storage) in tables: if filter(table_name) emplace.
FilteredTables(m, filter) ==
    [n \in {k \in DOMAIN m : k \in filter.pass} |-> m[n]]

\* for dictionary_name in names: if getDictionaryStorage(...) gives a storage,
\* m.emplace(dictionary_name, storage).
\* A dictionary loop that assigns (operator[]) where the code emplaces.
RECURSIVE EmplaceDictionaryStorages_Assign(_, _)
EmplaceDictionaryStorages_Assign(m, names) ==
    IF names = {} THEN m
    ELSE LET dictionary_name == CHOOSE x \in names : TRUE
             dictionary_storage == getDictionaryStorage(dictionary_name, DatabaseName)
         IN  EmplaceDictionaryStorages_Assign(
                 IF dictionary_storage # Null
                 THEN [x \in DOMAIN m \cup {dictionary_name} |->
                          IF x = dictionary_name THEN dictionary_storage ELSE m[x]]
                 ELSE m,
                 names \ {dictionary_name})

\* A dictionary loop that emplaces whatever getDictionaryStorage returns,
\* nullptr included.
RECURSIVE EmplaceDictionaryStorages_NoNullCheck(_, _)
EmplaceDictionaryStorages_NoNullCheck(m, names) ==
    IF names = {} THEN m
    ELSE LET dictionary_name == CHOOSE x \in names : TRUE
             dictionary_storage == getDictionaryStorage(dictionary_name, DatabaseName)
         IN  EmplaceDictionaryStorages_NoNullCheck(
                 Emplace(m, dictionary_name, dictionary_storage),
                 names \ {dictionary_name})

RECURSIVE EmplaceDictionaryStorages(_, _)
EmplaceDictionaryStorages(m, names) ==
    IF names = {} THEN m
    ELSE LET dictionary_name == CHOOSE x \in names : TRUE
             dictionary_storage == getDictionaryStorage(dictionary_name, DatabaseName)
         IN  EmplaceDictionaryStorages(
                 IF dictionary_storage # Null
                 THEN Emplace(m, dictionary_name, dictionary_storage)
                 ELSE m,
                 names \ {dictionary_name})

RECURSIVE LookupCalls(_)
LookupCalls(names) ==
    IF names = {} THEN <<>>
    ELSE LET dictionary_name == CHOOSE x \in names : TRUE
         IN  <<<<"tryGetDictionary", QualifiedName(DatabaseName, dictionary_name)>>>>
             \o LookupCalls(names \ {dictionary_name})

\* A lookup loop that does not ask the filter.
DictionariesToLookup_All(filter) == dictionaries

\* The dictionary names getDictionaryStorage is called for: all of them
\* without a filter, those the filter passes with one.
DictionariesToLookup(filter) ==
    IF ~filter.present THEN dictionaries
    ELSE {d \in dictionaries : d \in filter.pass}

\* What the function returns once its loops are done: without a filter
\* tables_copy with the dictionary storages emplaced; with one,
\* filtered_tables (the dictionary storages went into tables_copy).
TablesWithDictionaryTablesResult(tables_copy, filter) ==
    LET merged == EmplaceDictionaryStorages(tables_copy, DictionariesToLookup(filter))
    IN  IF ~filter.present
        THEN DatabaseTablesSnapshotIterator(merged)
        ELSE DatabaseTablesSnapshotIterator(FilteredTables(tables, filter))

\* A getTablesWithDictionaryTablesIterator that copies tables under the lock
\* and releases it before it calls the loader.
getTablesWithDictionaryTablesIterator_Unlocked(t, filter) ==
    /\ CanCallTop(t)
    /\ IF DictionariesToLookup(filter) = {}
       THEN /\ last' = Outcome("getTablesWithDictionaryTablesIterator", "", NoException,
                               Null, <<>>, FALSE)
            /\ held' = TablesWithDictionaryTablesResult(tables, filter)
            /\ UNCHANGED <<pc, arg>>
       ELSE /\ pc' = [pc EXCEPT ![t] = "getTablesWithDictionaryTables_loader"]
            /\ arg' = [arg EXCEPT ![t] = [filter |-> filter, tables_copy |-> tables]]
            /\ UNCHANGED <<last, held>>
    /\ UNCHANGED <<tables, dictionaries, mutex, loaded, sd>>

\* Takes the lock_guard and copies tables. With no dictionary to look up the
\* function returns at once; otherwise it enters the loader, lock held.
getTablesWithDictionaryTablesIterator(t, filter) ==
    /\ CanCallTop(t)
    /\ IF DictionariesToLookup(filter) = {}
       THEN /\ last' = Outcome("getTablesWithDictionaryTablesIterator", "", NoException,
                               Null, <<>>, FALSE)
            /\ held' = TablesWithDictionaryTablesResult(tables, filter)
            /\ UNCHANGED <<mutex, pc, arg>>
       ELSE /\ mutex' = t
            /\ pc' = [pc EXCEPT ![t] = "getTablesWithDictionaryTables_loader"]
            /\ arg' = [arg EXCEPT ![t] = [filter |-> filter, tables_copy |-> tables]]
            /\ UNCHANGED <<last, held>>
    /\ UNCHANGED <<tables, dictionaries, loaded, sd>>

\* A dictionary loop that emplaces into the member tables, not into the copy.
getTablesWithDictionaryTablesLoaderReturn_IntoTables(t) ==
    /\ pc[t] = "getTablesWithDictionaryTables_loader"
    /\ tables' = EmplaceDictionaryStorages(tables, DictionariesToLookup(arg[t].filter))
    /\ held' = TablesWithDictionaryTablesResult(arg[t].tables_copy, arg[t].filter)
    /\ last' = Outcome("getTablesWithDictionaryTablesIterator", "", NoException, Null,
                       LookupCalls(DictionariesToLookup(arg[t].filter)), FALSE)
    /\ mutex' = NoThread
    /\ pc' = [pc EXCEPT ![t] = "idle"]
    /\ arg' = [arg EXCEPT ![t] = Null]
    /\ UNCHANGED <<dictionaries, loaded, sd>>

\* The loader has answered every lookup; the iterator is built and the
\* lock_guard destroyed on return.
getTablesWithDictionaryTablesLoaderReturn(t) ==
    /\ pc[t] = "getTablesWithDictionaryTables_loader"
    /\ LET it == TablesWithDictionaryTablesResult(arg[t].tables_copy, arg[t].filter)
       IN  held' = it
    /\ last' = Outcome("getTablesWithDictionaryTablesIterator", "", NoException, Null,
                       LookupCalls(DictionariesToLookup(arg[t].filter)), FALSE)
    /\ mutex' = NoThread
    /\ pc' = [pc EXCEPT ![t] = "idle"]
    /\ arg' = [arg EXCEPT ![t] = Null]
    /\ UNCHANGED <<tables, dictionaries, loaded, sd>>

\* A getTablesIterator that merges the dictionary storages in, as
\* getTablesWithDictionaryTablesIterator does.
getTablesIterator_WithDictionaryTables(t, filter) ==
    /\ CanCallTop(t)
    /\ last' = Outcome("getTablesIterator", "", NoException, Null, <<>>, FALSE)
    /\ held' = DatabaseTablesSnapshotIterator(
                   EmplaceDictionaryStorages(
                       IF ~filter.present THEN tables ELSE FilteredTables(tables, filter),
                       DictionariesToLookup(filter)))
    /\ UNCHANGED <<tables, dictionaries, mutex, pc, arg, loaded, sd>>

getTablesIterator(t, filter) ==
    /\ CanCallTop(t)
    /\ LET it == IF ~filter.present
                 THEN DatabaseTablesSnapshotIterator(tables)
                 ELSE DatabaseTablesSnapshotIterator(FilteredTables(tables, filter))
       IN  /\ last' = Outcome("getTablesIterator", "", NoException, Null, <<>>, FALSE)
           /\ held' = it
    /\ UNCHANGED <<tables, dictionaries, mutex, pc, arg, loaded, sd>>

getDictionariesIterator(t, filter) ==
    /\ CanCallTop(t)
    /\ LET it == IF ~filter.present
                 THEN DatabaseDictionariesSnapshotIterator(dictionaries)
                 ELSE DatabaseDictionariesSnapshotIterator(
                          {d \in dictionaries : d \in filter.pass})
       IN  /\ last' = Outcome("getDictionariesIterator", "", NoException, Null, <<>>, FALSE)
           /\ held' = it
    /\ UNCHANGED <<tables, dictionaries, mutex, pc, arg, loaded, sd>>

\* --------------------------------------------------------------- shutdown
\* A shutdown() whose first lock_guard is not in a block of its own: the
\* mutex stays locked after the snapshot.
shutdownSnapshot_KeepLock(t) ==
    /\ CanCallTop(t)
    /\ mutex' = t
    /\ sd' = [sd EXCEPT ![t] = [tables_snapshot |-> tables,
                                pending |-> DOMAIN tables,
                                invoked |-> <<>>]]
    /\ pc' = [pc EXCEPT ![t] = "shutdown_loop"]
    /\ UNCHANGED <<tables, dictionaries, arg, loaded, held, last>>

\* { lock_guard; tables_snapshot = tables; }
shutdownSnapshot(t) ==
    /\ CanCallTop(t)
    /\ sd' = [sd EXCEPT ![t] = [tables_snapshot |-> tables,
                                pending |-> DOMAIN tables,
                                invoked |-> <<>>]]
    /\ pc' = [pc EXCEPT ![t] = "shutdown_loop"]
    /\ UNCHANGED <<tables, dictionaries, mutex, arg, loaded, held, last>>

\* kv.second->shutdown() for the next entry of tables_snapshot, no lock held;
\* the routine may decide to call back into the database.
shutdownInvoke(t, table_name) ==
    /\ pc[t] = "shutdown_loop"
    /\ table_name \in sd[t].pending
    /\ sd' = [sd EXCEPT ![t].pending = @ \ {table_name},
                        ![t].invoked = Append(@, sd[t].tables_snapshot[table_name])]
    /\ pc' = [pc EXCEPT ![t] = "in_table_shutdown"]
    /\ UNCHANGED <<tables, dictionaries, mutex, arg, loaded, held, last>>

\* The table's shutdown() routine returns.
tableShutdownReturn(t) ==
    /\ pc[t] = "in_table_shutdown"
    /\ pc' = [pc EXCEPT ![t] = "shutdown_loop"]
    /\ UNCHANGED <<tables, dictionaries, mutex, arg, sd, loaded, held, last>>

\* A shutdown() that forgets dictionaries.clear().
shutdownClear_TablesOnly(t) ==
    /\ pc[t] = "shutdown_loop"
    /\ sd[t].pending = {}
    /\ mutex = NoThread
    /\ tables' = EmptyMap
    /\ last' = Outcome("shutdown", "", NoException,
                       [tables_snapshot |-> sd[t].tables_snapshot, invoked |-> sd[t].invoked],
                       <<>>, FALSE)
    /\ sd' = [sd EXCEPT ![t] = Null]
    /\ pc' = [pc EXCEPT ![t] = "idle"]
    /\ UNCHANGED <<dictionaries, mutex, arg, loaded, held>>

\* lock_guard; tables.clear(); dictionaries.clear();
shutdownClear(t) ==
    /\ pc[t] = "shutdown_loop"
    /\ sd[t].pending = {}
    /\ mutex = NoThread
    /\ tables' = EmptyMap
    /\ dictionaries' = {}
    /\ last' = Outcome("shutdown", "", NoException,
                       [tables_snapshot |-> sd[t].tables_snapshot, invoked |-> sd[t].invoked],
                       <<>>, FALSE)
    /\ sd' = [sd EXCEPT ![t] = Null]
    /\ pc' = [pc EXCEPT ![t] = "idle"]
    /\ UNCHANGED <<mutex, arg, loaded, held>>

\* ------------------------------------------------------------------ system
LookupOps(t) ==
    \/ \E n \in Names : isTableExist(t, n)
    \/ \E n \in Names : isDictionaryExist(t, n)
    \/ empty(t)
    \/ \E n \in Names : tryGetTable(t, n)
    \/ tryGetTableLoaderReturn(t)

TableOps(t) ==
    \/ \E n \in Names : \E table \in StoragesNamed(n) : attachTable(t, n, table)
    \/ \E n \in Names : detachTable(t, n)

DictionaryOps(t) ==
    \/ \E n \in Names : \E load, lazy_load \in BOOLEAN :
          attachDictionary(t, n, load, lazy_load)
    \/ \E n \in Names : detachDictionary(t, n)
    \/ reloadReturn(t)

EnumerationOps(t) ==
    \/ \E filter \in Filters : getTablesWithDictionaryTablesIterator(t, filter)
    \/ getTablesWithDictionaryTablesLoaderReturn(t)
    \/ \E filter \in Filters : getTablesIterator(t, filter)
    \/ \E filter \in Filters : getDictionariesIterator(t, filter)

ShutdownOps(t) ==
    \/ shutdownSnapshot(t)
    \/ \E n \in Names : shutdownInvoke(t, n)
    \/ tableShutdownReturn(t)
    \/ shutdownClear(t)

LoaderNext == \E dict_name \in QualifiedNames : ExternalLoaderUpdate(dict_name)

\* Every operation, from every thread.
Next ==
    \/ \E t \in Threads :
          LookupOps(t) \/ TableOps(t) \/ DictionaryOps(t) \/ EnumerationOps(t) \/ ShutdownOps(t)
    \/ LoaderNext

Spec == Init /\ [][Next]_vars

\* The registry: lookups, attach and detach of tables and dictionaries.
NextRegistry ==
    \/ \E t \in Threads : LookupOps(t) \/ TableOps(t) \/ DictionaryOps(t)
    \/ LoaderNext

SpecRegistry == Init /\ [][NextRegistry]_vars

\* attachTable and detachTable with one storage for each name.
TableOpsOneStorage(t) ==
    \/ \E n \in Names : attachTable(t, n, Storage(n, 1))
    \/ \E n \in Names : detachTable(t, n)

\* Enumeration by one thread while another changes the registry. The
\* enumeration functions copy whatever storage the map holds, so the other
\* thread attaches one storage for each name.
NextEnumeration ==
    \/ EnumerationOps(1)
    \/ TableOpsOneStorage(2) \/ DictionaryOps(2) \/ ShutdownOps(2)
    \/ LoaderNext

SpecEnumeration == Init /\ [][NextEnumeration]_vars

\* Every read operation by one thread while another changes the registry.
NextReads ==
    \/ LookupOps(1) \/ EnumerationOps(1)
    \/ TableOpsOneStorage(2) \/ DictionaryOps(2)
    \/ LoaderNext

SpecReads == Init /\ [][NextReads]_vars

\* Shutdown while tables are attached, detached and looked up.
NextShutdown ==
    \E t \in Threads :
        \/ \E n \in Names : isTableExist(t, n)
        \/ \E n \in Names : tryGetTable(t, n)
        \/ TableOps(t)
        \/ ShutdownOps(t)

SpecShutdown == Init /\ [][NextShutdown]_vars

\* A thread that has begun shutdown() keeps running: the loop, the table
\* routines and the final clear are plain sequential code.
ShutdownProgress(t) ==
    \/ \E n \in Names : shutdownInvoke(t, n)
    \/ tableShutdownReturn(t)
    \/ shutdownClear(t)

FairSpecShutdown == SpecShutdown /\ \A t \in Threads : WF_vars(ShutdownProgress(t))

\* One thread alone: no other thread operates on the database.
NextAlone ==
    \/ LookupOps(1) \/ TableOps(1) \/ DictionaryOps(1) \/ ShutdownOps(1)
    \/ LoaderNext

SpecAlone == Init /\ [][NextAlone]_vars

\* ------------------------------------------------------------ error kinds
\* The error taxonomy in terms of the codes the exceptions carry.
IsNotFound(err) == err.code = "UNKNOWN_TABLE"
IsAlreadyExists(err) == err.code \in {"TABLE_ALREADY_EXISTS", "DICTIONARY_ALREADY_EXISTS"}
MisuseMessage == "Cannot detach dictionary as table, use DETACH DICTIONARY query."

\* The thread is inside a call into ExternalDictionariesLoader.
InLoaderCall(t) ==
    pc[t] \in {"tryGetTable_loader", "getTablesWithDictionaryTables_loader",
               "detachDictionary_reload", "attachDictionary_reload"}

\* ------------------------------------------------------------------ claims

C2_SecondAttachFails ==
    [][\A t \in Threads, n \in Names :
          /\ \A table \in Storages :
                (attachTable(t, n, table) /\ n \in DOMAIN tables) =>
                    /\ last'.op = "attachTable" /\ last'.name = n
                    /\ IsAlreadyExists(last'.err)
                    /\ tables' = tables /\ tables'[n] = tables[n]
                    /\ dictionaries' = dictionaries
          /\ \A load, lazy_load \in BOOLEAN :
                (attachDictionary(t, n, load, lazy_load) /\ n \in dictionaries) =>
                    /\ last'.op = "attachDictionary" /\ last'.name = n
                    /\ IsAlreadyExists(last'.err)
                    /\ tables' = tables /\ dictionaries' = dictionaries
                    /\ last'.calls = <<>>
                    /\ ~InLoaderCall(t)']_vars

\* A second attachTable has failed and the name is still attached.
C2_Witness ==
    /\ last.op = "attachTable"
    /\ last.err.code = "TABLE_ALREADY_EXISTS"
    /\ last.name \in DOMAIN tables

\* C3: detachTable of a name that is neither a table nor a dictionary, and
\* detachDictionary of a name that is no dictionary, fail with NotFound,
\* change neither tables nor dictionaries, and make no reload request.
C3_DetachAbsentFails ==
    [][\A t \in Threads, n \in Names :
          /\ (detachTable(t, n) /\ n \notin DOMAIN tables /\ n \notin dictionaries) =>
                /\ last'.op = "detachTable" /\ last'.name = n
                /\ IsNotFound(last'.err)
                /\ tables' = tables /\ dictionaries' = dictionaries
          /\ (detachDictionary(t, n) /\ n \notin dictionaries) =>
                /\ last'.op = "detachDictionary" /\ last'.name = n
                /\ IsNotFound(last'.err)
                /\ tables' = tables /\ dictionaries' = dictionaries
                /\ last'.calls = <<>>
                /\ ~InLoaderCall(t)']_vars

\* A detachDictionary of a name attached only as a table has failed.
C3_Witness ==
    /\ last.op = "detachDictionary"
    /\ last.err.code = "UNKNOWN_TABLE"
    /\ last.name \notin dictionaries
    /\ last.name \in DOMAIN tables

\* C6: no thread holds the mutex while it is inside a call into the
\* Dictionary Loader.
C6_NoLockInLoaderCall ==
    \A t \in Threads : InLoaderCall(t) => mutex # t

\* The storages in a log of shutdown() invocations, and how often one occurs.
Range(log) == {log[i] : i \in 1..Len(log)}
Count(storage, log) == Cardinality({i \in 1..Len(log) : log[i] = storage})

\* The thread is inside shutdown().
InShutdown(t) == sd[t] # Null

\* C4: once shutdown() has returned to a thread that is alone on the
\* database, empty() is true and the shutdown() routine of every storage
\* attached when shutdown began has run exactly once (and no other has run).
C4_AfterShutdown ==
    (last.op = "shutdown" /\ pc[1] = "idle") =>
        /\ emptyResult
        /\ \A storage \in Storages :
              Count(storage, last.ret.invoked) =
                  IF \E n \in DOMAIN last.ret.tables_snapshot :
                         last.ret.tables_snapshot[n] = storage
                  THEN 1 ELSE 0

\* shutdown() has returned after shutting down two attached tables.
C4_Witness ==
    /\ last.op = "shutdown"
    /\ pc[1] = "idle"
    /\ Len(last.ret.invoked) = 2
    /\ emptyResult

\* C5: under every interleaving of shutdown with attachTable, detachTable and
\* a second shutdown, every storage the final clear removes from tables has
\* had its shutdown() invoked, and no storage has shutdown() invoked twice.
C5_ExactlyOncePerHandle ==
    /\ [][\A t \in Threads :
             shutdownClear(t) =>
                 \A n \in DOMAIN tables :
                     \/ \E u \in Threads : InShutdown(u) /\ tables[n] \in Range(sd[u].invoked)
                     \/ last.op = "shutdown" /\ tables[n] \in Range(last.ret.invoked)]_vars
    /\ [](\A t \in Threads, storage \in Storages :
             InShutdown(t) => Count(storage, sd[t].invoked) <= 1)
    /\ [](\A t, u \in Threads :
             (t # u /\ InShutdown(t) /\ InShutdown(u)) =>
                 Range(sd[t].invoked) \cap Range(sd[u].invoked) = {})

\* C7: while shutdown() is inside a table's shutdown() routine it does not
\* hold the mutex, so a call the routine makes back into the database can
\* take it; and every shutdown() that has begun returns.
C7_ShutdownReentrant ==
    /\ [](\A t \in Threads :
             pc[t] = "in_table_shutdown" =>
                 /\ mutex # t
                 /\ CanCall(t) \/ InLoaderCall(mutex))
    /\ \A t \in Threads : InShutdown(t) ~> ~InShutdown(t)

\* A table's shutdown() routine has detached a table from inside shutdown().
C7_Witness ==
    /\ \E t \in Threads : pc[t] = "in_table_shutdown"
    /\ last.nested
    /\ last.op = "detachTable"
    /\ last.err = NoException

\* The result of getTablesWithDictionaryTablesIterator without a filter, for
\* the registry and the loader as they are now.
UnfilteredEntries == EmplaceDictionaryStorages(tables, dictionaries)

\* C8: with a filter, getTablesWithDictionaryTablesIterator returns exactly
\* the entries of the unfiltered result whose names pass the filter (tables
\* and dictionary views alike), and looks up only dictionaries that pass.
C8_FilteredIsUnfilteredRestricted ==
    [][\A filter \in Filters :
          (/\ filter.present
           /\ \/ getTablesWithDictionaryTablesIterator(1, filter) /\ ~InLoaderCall(1)'
              \/ getTablesWithDictionaryTablesLoaderReturn(1) /\ arg[1].filter = filter) =>
              /\ held' = DatabaseTablesSnapshotIterator(FilteredTables(UnfilteredEntries, filter))
              /\ \A i \in 1..Len(last'.calls) :
                    \E d \in filter.pass :
                        last'.calls[i] = <<"tryGetDictionary", QualifiedName(DatabaseName, d)>>]_vars

\* C9: with a filter that no table name and no dictionary name passes,
\* getTablesWithDictionaryTablesIterator returns an iterator with no entries
\* and never enters the Dictionary Loader.
C9_NoMatchNoLookup ==
    [][\A filter \in Filters :
          (/\ filter.present
           /\ (DOMAIN tables \cup dictionaries) \cap filter.pass = {}
           /\ getTablesWithDictionaryTablesIterator(1, filter)) =>
              /\ held' = DatabaseTablesSnapshotIterator(EmptyMap)
              /\ last'.op = "getTablesWithDictionaryTablesIterator"
              /\ last'.calls = <<>>
              /\ ~InLoaderCall(1)']_vars

\* The call has returned an empty iterator, without a lookup, from a registry
\* holding a table and a dictionary whose view could have been built.
C9_Witness ==
    /\ last.op = "getTablesWithDictionaryTablesIterator"
    /\ last.calls = <<>>
    /\ held = DatabaseTablesSnapshotIterator(EmptyMap)
    /\ \A t \in Threads : pc[t] = "idle"
    /\ tables # EmptyMap
    /\ \E d \in dictionaries :
          d \notin DOMAIN tables /\ QualifiedName(DatabaseName, d) \in loaded

\* The iterator's entries are those of the registry as it is now: each is a
\* table's own storage or the view of an attached dictionary, and no table the
\* filter passes is missing.
ConsistentWithRegistry(entries, filter) ==
    /\ \A n \in DOMAIN entries :
          \/ n \in DOMAIN tables /\ entries[n] = tables[n]
          \/ /\ n \notin DOMAIN tables
             /\ n \in dictionaries
             /\ entries[n][1] = "StorageDictionary"
    /\ \A n \in DOMAIN tables :
          (~filter.present \/ n \in filter.pass) => n \in DOMAIN entries

\* C10: every iterator is a copy of the registry as of one instant inside the
\* call that returns it, and nothing but a later enumeration call replaces
\* it: attach, detach and shutdown leave its entries as they are.
C10_FrozenSnapshot ==
    [][/\ held' # held => EnumerationOps(1)
       /\ \A filter \in Filters :
             /\ getTablesIterator(1, filter) =>
                   /\ held'[1] = "DatabaseTablesSnapshotIterator"
                   /\ ConsistentWithRegistry(held'[2], filter)
                   /\ DOMAIN held'[2] \subseteq DOMAIN tables
             /\ getDictionariesIterator(1, filter) =>
                   held' = DatabaseDictionariesSnapshotIterator(
                               {d \in dictionaries : ~filter.present \/ d \in filter.pass})
             /\ (getTablesWithDictionaryTablesIterator(1, filter) /\ ~InLoaderCall(1)') =>
                   ConsistentWithRegistry(held'[2], filter)
       /\ getTablesWithDictionaryTablesLoaderReturn(1) =>
             ConsistentWithRegistry(held'[2], arg[1].filter)]_vars

\* A table attached after the iterator was taken is in tables and not in
\* the iterator.
C10_Witness ==
    /\ held # Null
    /\ held[1] = "DatabaseTablesSnapshotIterator"
    /\ last.op = "attachTable"
    /\ last.err = NoException
    /\ last.name \in DOMAIN tables
    /\ last.name \notin DOMAIN held[2]

\* C11: with one thread, isTableExist(n) called right after a successful
\* attachTable(n, h) returns true, and called right after a successful
\* detachTable(n) returns false, whatever else the registry holds.
C11_ExistAfterAttachDetach ==
    [][\A n \in Names :
          (isTableExist(1, n) /\ last.name = n /\ last.err = NoException) =>
              /\ last.op = "attachTable" => last'.ret = TRUE
              /\ last.op = "detachTable" => last'.ret = FALSE]_vars

\* detachTable(n) has just succeeded while another name is still attached as a
\* table and as a dictionary, and the thread is free to call isTableExist(n).
C11_Witness ==
    /\ last.op = "detachTable"
    /\ last.err = NoException
    /\ last.name \notin DOMAIN tables
    /\ tables # EmptyMap
    /\ dictionaries # {}
    /\ CanCall(1)

\* The thread is inside a call of op on dictionary n that has taken effect
\* and has not returned yet.
InsideDictionaryCall(t, op, n) ==
    /\ pc[t] = op
    /\ arg[t][2] = QualifiedName(DatabaseName, n)

\* C12: the check and the change of attachTable, detachTable, attachDictionary
\* and detachDictionary are one atomic step under every interleaving of the
\* threads. Each call succeeds exactly when the registry it finds allows it
\* and then makes exactly its own change, otherwise it fails with
\* AlreadyExists (attach) or NotFound (detach) and changes nothing. So of
\* calls racing for one name one wins: a call that follows a successful call
\* of the same operation on the same name, or overlaps it, fails.
C12_AtomicCheckThenMutate ==
    [][\A t \in Threads, n \in Names :
          /\ \A table \in Storages :
                attachTable(t, n, table) =>
                    /\ (last'.err = NoException) <=> (n \notin DOMAIN tables)
                    /\ last'.err # NoException => IsAlreadyExists(last'.err) /\ tables' = tables
                    /\ last'.err = NoException =>
                          /\ DOMAIN tables' = DOMAIN tables \cup {n}
                          /\ tables'[n] = table
                          /\ \A k \in DOMAIN tables : tables'[k] = tables[k]
                    /\ (last.op = "attachTable" /\ last.name = n /\ last.err = NoException) =>
                          IsAlreadyExists(last'.err)
          /\ detachTable(t, n) =>
                /\ (last'.err = NoException) <=> (n \in DOMAIN tables /\ n \notin dictionaries)
                /\ last'.err # NoException => IsNotFound(last'.err) /\ tables' = tables
                /\ last'.err = NoException =>
                      /\ DOMAIN tables' = DOMAIN tables \ {n}
                      /\ last'.ret = tables[n]
                      /\ \A k \in DOMAIN tables' : tables'[k] = tables[k]
                /\ (last.op = "detachTable" /\ last.name = n /\ last.err = NoException) =>
                      IsNotFound(last'.err)
          /\ \A load, lazy_load \in BOOLEAN :
                attachDictionary(t, n, load, lazy_load) =>
                    /\ IF n \in dictionaries
                       THEN /\ last'.op = "attachDictionary" /\ last'.name = n
                            /\ IsAlreadyExists(last'.err)
                            /\ dictionaries' = dictionaries
                       ELSE /\ dictionaries' = dictionaries \cup {n}
                            /\ load => InsideDictionaryCall(t, "attachDictionary_reload", n)'
                            /\ ~load => last'.err = NoException
                    /\ (\E u \in Threads \ {t} :
                           /\ InsideDictionaryCall(u, "attachDictionary_reload", n)
                           /\ n \in dictionaries) =>
                          IsAlreadyExists(last'.err)
          /\ detachDictionary(t, n) =>
                /\ IF n \notin dictionaries
                   THEN /\ last'.op = "detachDictionary" /\ last'.name = n
                        /\ IsNotFound(last'.err)
                        /\ dictionaries' = dictionaries
                   ELSE /\ dictionaries' = dictionaries \ {n}
                        /\ InsideDictionaryCall(t, "detachDictionary_reload", n)'
                /\ (\E u \in Threads \ {t} :
                       /\ InsideDictionaryCall(u, "detachDictionary_reload", n)
                       /\ n \notin dictionaries) =>
                      IsNotFound(last'.err)]_vars

\* One thread is still inside its successful attachDictionary(n) while the
\* other thread's attachDictionary(n) has failed.
C12_Witness ==
    /\ pc[1] = "attachDictionary_reload"
    /\ pc[2] = "idle"
    /\ last.op = "attachDictionary"
    /\ last.name = arg[1][2][3]
    /\ IsAlreadyExists(last.err)
    /\ last.name \in dictionaries

\* C13: tryGetTable(n) returns the stored storage when n is in tables;
\* otherwise, when n is a dictionary name, it asks the loader for db.n and
\* returns a new view when the loader has it and nothing when it has not;
\* otherwise it returns nothing. It never throws.
C13_TryGetTable ==
    [][\A t \in Threads :
          /\ \A n \in Names :
                tryGetTable(t, n) =>
                    IF n \in DOMAIN tables
                    THEN /\ last'.op = "tryGetTable" /\ last'.name = n
                         /\ last'.err = NoException
                         /\ last'.ret = tables[n]
                         /\ last'.calls = <<>>
                    ELSE IF n \in dictionaries
                    THEN pc'[t] = "tryGetTable_loader" /\ arg'[t] = n
                    ELSE /\ last'.op = "tryGetTable" /\ last'.name = n
                         /\ last'.err = NoException
                         /\ last'.ret = Null
                         /\ last'.calls = <<>>
          /\ tryGetTableLoaderReturn(t) =>
                LET dict_name == QualifiedName(DatabaseName, arg[t])
                IN  /\ last'.op = "tryGetTable" /\ last'.name = arg[t]
                    /\ last'.err = NoException
                    /\ last'.calls = <<<<"tryGetDictionary", dict_name>>>>
                    /\ last'.ret = IF dict_name \in loaded
                                   THEN <<"StorageDictionary", DatabaseName, arg[t], dict_name>>
                                   ELSE Null
                    /\ \A k \in DOMAIN tables' : tables'[k] # last'.ret]_vars

\* tryGetTable has returned the view of a loaded dictionary that is not a table.
C13_Witness ==
    /\ last.op = "tryGetTable"
    /\ last.ret # Null
    /\ last.ret[1] = "StorageDictionary"
    /\ last.name \in dictionaries
    /\ last.name \notin DOMAIN tables

\* C14: a successful attachDictionary(n, load) inserts n into dictionaries in
\* its locked block; with load it then, not holding the lock, makes exactly
\* one request reload(db.n, flag) whose flag is true when lazy loading is off
\* and false when it is on; without load it makes no loader request.
C14_AttachDictionaryReload ==
    [][\A t \in Threads :
          /\ \A n \in Names, load, lazy_load \in BOOLEAN :
                (attachDictionary(t, n, load, lazy_load) /\ n \notin dictionaries) =>
                    /\ dictionaries' = dictionaries \cup {n}
                    /\ mutex' # t
                    /\ IF load
                       THEN /\ pc'[t] = "attachDictionary_reload"
                            /\ arg'[t] = <<"reload", QualifiedName(DatabaseName, n),
                                           IF lazy_load THEN FALSE ELSE TRUE>>
                            /\ last' = last
                       ELSE /\ pc'[t] = "idle"
                            /\ last'.op = "attachDictionary" /\ last'.name = n
                            /\ last'.err = NoException
                            /\ last'.calls = <<>>
          /\ (reloadReturn(t) /\ pc[t] = "attachDictionary_reload") =>
                /\ mutex # t
                /\ last'.op = "attachDictionary"
                /\ last'.err = NoException
                /\ last'.calls = <<arg[t]>>
                /\ arg[t][2] = QualifiedName(DatabaseName, last'.name)
                /\ pc'[t] = "idle"
                /\ tables' = tables /\ dictionaries' = dictionaries]_vars

\* An attachDictionary with load set and lazy loading off has returned after
\* its one reload request, and the name is attached.
C14_Witness ==
    /\ last.op = "attachDictionary"
    /\ last.err = NoException
    /\ last.calls = <<<<"reload", QualifiedName(DatabaseName, last.name), TRUE>>>>
    /\ last.name \in dictionaries

\* C15: a successful detachDictionary(n) erases n from dictionaries in its
\* locked block and leaves tables alone; from then on isDictionaryExist(n)
\* returns false until an attachDictionary(n) puts the name back; the thread
\* then, not holding the lock, makes exactly one request reload(db.n, true).
C15_DetachDictionaryReload ==
    [][/\ \A t \in Threads, n \in Names :
             /\ (detachDictionary(t, n) /\ n \in dictionaries) =>
                   /\ dictionaries' = dictionaries \ {n}
                   /\ tables' = tables
                   /\ mutex' # t
                   /\ pc'[t] = "detachDictionary_reload"
                   /\ arg'[t] = <<"reload", QualifiedName(DatabaseName, n), TRUE>>
                   /\ last' = last
             /\ (isDictionaryExist(t, n) /\ n \notin dictionaries) => last'.ret = FALSE
             /\ (n \notin dictionaries /\ n \in dictionaries') =>
                   \E u \in Threads : \E load, lazy_load \in BOOLEAN :
                       attachDictionary(u, n, load, lazy_load)
       /\ \A t \in Threads :
             (reloadReturn(t) /\ pc[t] = "detachDictionary_reload") =>
                /\ mutex # t
                /\ last'.op = "detachDictionary"
                /\ last'.err = NoException
                /\ last'.calls = <<arg[t]>>
                /\ arg[t] = <<"reload", QualifiedName(DatabaseName, last'.name), TRUE>>
                /\ pc'[t] = "idle"
                /\ tables' = tables /\ dictionaries' = dictionaries]_vars

\* While one thread is inside the reload request of its detachDictionary(n),
\* another thread's isDictionaryExist(n) has returned false; a table is attached.
C15_Witness ==
    /\ pc[1] = "detachDictionary_reload"
    /\ last.op = "isDictionaryExist"
    /\ arg[1][2] = QualifiedName(DatabaseName, last.name)
    /\ last.ret = FALSE
    /\ tables # EmptyMap

\* Thread 1's getTablesWithDictionaryTablesIterator call without a filter
\* returns in this step.
UnfilteredReturns ==
    \/ getTablesWithDictionaryTablesIterator(1, NoFilter) /\ ~InLoaderCall(1)'
    \/ getTablesWithDictionaryTablesLoaderReturn(1) /\ ~arg[1].filter.present

\* The dictionary names whose view the loader lets getDictionaryStorage build.
Buildable == {d \in dictionaries : QualifiedName(DatabaseName, d) \in loaded}

\* C16, as stated: without a filter the iterator holds every entry of tables
\* plus a view entry for each dictionary name whose view can be built, and
\* nothing for the others; the call does not fail.
C16_TablesPlusEveryBuildableView ==
    [][UnfilteredReturns =>
          /\ last'.err = NoException
          /\ held'[1] = "DatabaseTablesSnapshotIterator"
          /\ DOMAIN held'[2] = DOMAIN tables \cup Buildable
          /\ \A n \in DOMAIN tables : held'[2][n] = tables[n]
          /\ \A d \in Buildable : held'[2][d][1] = "StorageDictionary"]_vars

\* C16, amended: without a filter the iterator holds every entry of tables
\* plus a view entry for each dictionary name that is not a key of tables and
\* whose view can be built; a dictionary name that is also a table keeps the
\* table's entry, and a name whose view cannot be built gets nothing; the call
\* does not fail.
C16_TablesPlusBuildableViews ==
    [][UnfilteredReturns =>
          /\ last'.err = NoException
          /\ held'[1] = "DatabaseTablesSnapshotIterator"
          /\ DOMAIN held'[2] = DOMAIN tables \cup Buildable
          /\ \A n \in DOMAIN tables : held'[2][n] = tables[n]
          /\ \A d \in Buildable \ DOMAIN tables :
                held'[2][d] = <<"StorageDictionary", DatabaseName, d,
                                QualifiedName(DatabaseName, d)>>]_vars

\* The unfiltered call has looked up two dictionaries and returned a table, the
\* view of the dictionary the loader has and no view for the one it has not.
C16_Witness ==
    /\ last.op = "getTablesWithDictionaryTablesIterator"
    /\ Len(last.calls) = 2
    /\ held # Null
    /\ held[1] = "DatabaseTablesSnapshotIterator"
    /\ \E n, d \in DOMAIN held[2] :
          /\ n \in DOMAIN tables /\ held[2][n] = tables[n]
          /\ n \in dictionaries \ Buildable
          /\ held[2][d][1] = "StorageDictionary"

\* The name matches: there is no predicate, or the predicate accepts it.
Passes(filter, name) == ~filter.present \/ name \in filter.pass

\* C17: getTablesIterator(filter) returns exactly the entries of tables whose
\* names match, and so no entry for a name that is only a dictionary;
\* getDictionariesIterator(filter) returns exactly the dictionary names that
\* match; without a predicate every name matches; neither calls the loader.
C17_PlainIterators ==
    [][\A filter \in Filters :
          /\ getTablesIterator(1, filter) =>
                /\ held'[1] = "DatabaseTablesSnapshotIterator"
                /\ DOMAIN held'[2] = {n \in DOMAIN tables : Passes(filter, n)}
                /\ \A n \in DOMAIN held'[2] : held'[2][n] = tables[n]
                /\ last'.op = "getTablesIterator" /\ last'.err = NoException
                /\ last'.calls = <<>>
                /\ mutex' = mutex /\ pc'[1] = "idle"
          /\ getDictionariesIterator(1, filter) =>
                /\ held'[1] = "DatabaseDictionariesSnapshotIterator"
                /\ held'[2] = {d \in dictionaries : Passes(filter, d)}
                /\ last'.op = "getDictionariesIterator" /\ last'.err = NoException
                /\ last'.calls = <<>>
                /\ mutex' = mutex /\ pc'[1] = "idle"]_vars

\* getTablesIterator has returned an iterator without the entry of a loaded
\* dictionary that is not a table.
C17_Witness ==
    /\ last.op = "getTablesIterator"
    /\ held # Null
    /\ held[1] = "DatabaseTablesSnapshotIterator"
    /\ held[2] # EmptyMap
    /\ Buildable \ DOMAIN tables # {}

\* C18: once shutdown() has returned the database is Closed for good: an
\* operation that follows leaves tables and dictionaries empty.
C18_ClosedIsTerminal ==
    [][(last.op = "shutdown" /\ pc[1] = "idle") =>
          (tables' = EmptyMap /\ dictionaries' = {})]_vars

\* C19: for a name that is both a key of tables and a dictionary name the
\* table wins: tryGetTable returns the stored storage without a loader call,
\* and the iterator of getTablesWithDictionaryTablesIterator without a filter
\* maps the name to the stored storage, not to a view.
C19_TableWins ==
    [][/\ \A n \in DOMAIN tables \cap dictionaries :
             tryGetTable(1, n) =>
                /\ last'.op = "tryGetTable" /\ last'.name = n
                /\ last'.ret = tables[n]
                /\ last'.calls = <<>>
                /\ mutex' = mutex /\ pc'[1] = "idle"
       /\ UnfilteredReturns =>
             \A n \in DOMAIN tables \cap dictionaries : held'[2][n] = tables[n]]_vars

\* The unfiltered enumeration has returned the table's storage for a name
\* that is also a dictionary the loader has, next to a dictionary's view.
C19_Witness ==
    /\ last.op = "getTablesWithDictionaryTablesIterator"
    /\ held # Null
    /\ \E n \in DOMAIN tables \cap Buildable :
          /\ n \in DOMAIN held[2]
          /\ held[2][n] = tables[n]
    /\ \E d \in DOMAIN held[2] : held[2][d][1] = "StorageDictionary"

\* A step of one of thread 1's read operations.
ReadStep == LookupOps(1) \/ EnumerationOps(1)

\* C20: isTableExist, isDictionaryExist, tryGetTable, empty and the three
\* enumeration functions leave tables and dictionaries as they are; a view
\* they build is never put into tables, which at all times holds only
\* storages that were given to attachTable under that name.
C20_ReadsChangeNothing ==
    /\ [][ReadStep => (tables' = tables /\ dictionaries' = dictionaries)]_vars
    /\ [](\A n \in DOMAIN tables : tables[n] \in StoragesNamed(n))

\* tryGetTable has returned a dictionary's view, an enumeration has returned
\* one too, and tables holds a table's storage and no view.
C20_Witness ==
    /\ last.op = "tryGetTable"
    /\ last.ret # Null
    /\ last.ret[1] = "StorageDictionary"
    /\ held # Null
    /\ held[1] = "DatabaseTablesSnapshotIterator"
    /\ \E d \in DOMAIN held[2] : held[2][d][1] = "StorageDictionary"
    /\ tables # EmptyMap
    /\ \A n \in DOMAIN tables : tables[n][1] = "IStorage"

====
